---- MODULE Spec2Model ----
(***************************************************************************)
(* Caption pipeline of captioncreator_9-16: word grouping (utils.py),      *)
(* aspect-fit planning (aspect_validator.py), the safe-zone arithmetic     *)
(* (safe_zone.py) and the CaptionCreator (caption_creator.py): its life    *)
(* cycle over a batch of videos, and the line wrap, placement and          *)
(* per-line drawing of _create_text_clip.                                  *)
(*                                                                         *)
(* Numbers.  Timestamps are counted in ticks of 0.1 s and glyph advances   *)
(* in whole pixels, so sums, differences and comparisons are exact.        *)
(* Python's float division followed by int() is modelled by IntOfRatio:    *)
(* the truncated exact quotient, and, where the exact quotient is an       *)
(* integer that the double computation may miss from below, that integer   *)
(* or its neighbour towards zero.                                          *)
(***************************************************************************)
EXTENDS Integers, Sequences, FiniteSets, TLC

VARIABLES
    \* ---- utils.group_words_by_time_and_width: arguments and locals ----
    word_timestamps,               \* the list passed in (its dicts are mutated in place)
    input_words,                   \* the caller's view of the list before the call
    max_gap_seconds,
    max_width_px,
    font_size,
    max_words_per_group,
    max_caption_duration_seconds,
    idx,                           \* position of the for loop (next element, 1-based)
    current_group,
    caption_groups,
    gpc,                           \* "loop" | "done"  (done = returned caption_groups)
    last_step,                     \* what the last loop iteration did
    \* ---- AspectRatioValidator static methods: arguments and return value ----
    width,
    height,
    plan_result,
    \* ---- CaptionCreator instance ----
    config,
    needs_crop,
    video,
    active_font_size,
    active_stroke_width,
    active_line_spacing,
    active_shadow_offset,
    active_shadow_blur,
    active_stroke_corner_radius,
    videos_done,                   \* generate() calls completed by this instance
    files,                         \* the videos the batch loop hands to generate, in order
    video_duration,                \* self.video.duration, in ticks
    text_clips,                    \* the clips generate gives to CompositeVideoClip
    pc,                            \* position inside generate()
    \* ---- SafeZone static methods: arguments and return value ----
    video_width,
    video_height,
    caption_height,
    position,
    padding,
    zone_result,
    \* ---- CaptionCreator._create_text_clip: argument and locals of the layout ----
    words_data,
    caption_width,
    caption_parts,
    lines,
    total_height,
    current_line,
    current_line_width,
    part_idx,                      \* position of the wrap loop (next element, 1-based)
    padding_x,
    img_width,
    x_start,                       \* x_start of each line laid out so far
    lpc,                           \* "start" | "wrap" | "place"
    \* ---- CaptionCreator._create_text_clip: the per-line drawing loop ----
    line_ink,                      \* per line, the pixels its words' glyphs cover
    img_size,                      \* final_img.size
    y_start,
    text_mask,
    expanded_mask,
    final_img,                     \* pixel -> the layer last painted there
    lines_drawn                    \* iterations of the loop completed

groupVars == <<word_timestamps, input_words, max_gap_seconds, max_width_px, font_size,
               max_words_per_group, max_caption_duration_seconds, idx, current_group,
               caption_groups, gpc, last_step>>

planVars == <<width, height, plan_result>>

activeVars == <<active_font_size, active_stroke_width, active_line_spacing,
                active_shadow_offset, active_shadow_blur, active_stroke_corner_radius>>

creatorVars == <<config, needs_crop, video, active_font_size, active_stroke_width,
                 active_line_spacing, active_shadow_offset, active_shadow_blur,
                 active_stroke_corner_radius, videos_done, files, video_duration,
                 text_clips, pc>>

zoneVars == <<video_width, video_height, caption_height, position, padding, zone_result>>

layoutVars == <<words_data, caption_width, caption_parts, lines, total_height,
                current_line, current_line_width, part_idx, padding_x, img_width,
                x_start, lpc>>

rasterVars == <<line_ink, img_size, y_start, text_mask, expanded_mask, final_img,
                lines_drawn>>

renderVars == <<zoneVars, layoutVars, rasterVars>>

vars == <<groupVars, planVars, creatorVars, renderVars>>

(***************************************************************************)
(* Bounds of the model                                                     *)
(***************************************************************************)
MaxInputLen == 3        \* longest word list drawn
MaxTime == 1            \* latest word start, in ticks
MaxDim == 48            \* largest source side drawn for the planner
MaxBad == 2             \* the planner is also given sides down to -MaxBad
MaxTarget == 5          \* largest target-box side drawn for calculate_fit_dimensions
MaxSide == 20           \* largest source side drawn for the CaptionCreator
MaxVideos == 2          \* videos processed by one CaptionCreator

(***************************************************************************)
(* Arithmetic helpers                                                      *)
(***************************************************************************)
Abs(x) == IF x < 0 THEN -x ELSE x

\* Python int(n/d) on an exact quotient: truncation towards zero (d # 0).
TruncDiv(n, d) ==
    LET q == Abs(n) \div Abs(d)
    IN  IF (n >= 0) = (d > 0) THEN q ELSE -q

\* Python n // 2 on integers: floor.
FloorHalf(n) == n \div 2

RECURSIVE Gcd(_, _)
Gcd(a, b) == IF b = 0 THEN a ELSE Gcd(b, a % b)

RECURSIVE IsPowerOfTwo(_)
IsPowerOfTwo(n) == IF n = 1 THEN TRUE ELSE IF n % 2 = 1 THEN FALSE ELSE IsPowerOfTwo(n \div 2)

\* w / h is computed without rounding iff its reduced denominator is a power of two.
ExactRatio(w, h) == w = 0 \/ IsPowerOfTwo(Abs(h) \div Gcd(Abs(w), Abs(h)))

\* int(a * (w / h)) or int(a / (h / w)) in double arithmetic, as the set of values
\* the rounding can give: n/d is the exact value (n = a*w, d = h), ratioExact says
\* whether the intermediate ratio is free of rounding.
IntOfRatio(n, d, ratioExact) ==
    LET q == TruncDiv(n, d)
        below == IF q > 0 THEN q - 1 ELSE IF q < 0 THEN q + 1 ELSE 0
    IN  IF n % Abs(d) = 0 /\ ~ratioExact THEN {q, below} ELSE {q}

(***************************************************************************)
(* Text: a string is a sequence of one-character strings.                  *)
(***************************************************************************)
\* str.upper()
Upper(c) ==
    CASE c = "a" -> "A"
      [] c = "b" -> "B"
      [] OTHER -> c

RECURSIVE UpperAll(_)
UpperAll(s) == IF s = <<>> THEN <<>> ELSE <<Upper(Head(s))>> \o UpperAll(Tail(s))

IsSpace(c) == c = " "

RECURSIVE LStrip(_)
LStrip(s) == IF s # <<>> /\ IsSpace(Head(s)) THEN LStrip(Tail(s)) ELSE s

RECURSIVE RStrip(_)
RStrip(s) ==
    IF s # <<>> /\ IsSpace(s[Len(s)]) THEN RStrip(SubSeq(s, 1, Len(s) - 1)) ELSE s

\* str.strip()
Strip(s) == RStrip(LStrip(s))

\* word_data["word"].strip().upper()
ProcessWord(s) == UpperAll(Strip(s))

\* " ".join(texts)
RECURSIVE Join(_)
Join(texts) ==
    IF texts = <<>> THEN <<>>
    ELSE IF Len(texts) = 1 THEN texts[1]
    ELSE texts[1] \o <<" ">> \o Join(Tail(texts))

\* Horizontal advance of one glyph at font size 1 (the font's metrics).
Advance(c) == IF c = " " \/ c = "I" THEN 1 ELSE 2

RECURSIVE AdvanceSum(_)
AdvanceSum(s) == IF s = <<>> THEN 0 ELSE Advance(Head(s)) + AdvanceSum(Tail(s))

\* utils.get_text_width: font.getlength(text) at the given font size
get_text_width(text, size) == size * AdvanceSum(text)

WordsText(ws) == [k \in 1..Len(ws) |-> ws[k].word]

(***************************************************************************)
(* utils.group_words_by_time_and_width                                     *)
(***************************************************************************)
\* the dict appended to caption_groups
MakeGroup(grp) ==
    [text |-> Join(WordsText(grp)),
     words |-> grp,
     start |-> grp[1].start,
     end |-> grp[Len(grp)].end]

\* the word the loop is looking at, after word_data["word"] = processed_word
CurrentWord == [word_timestamps[idx] EXCEPT !.word = ProcessWord(@)]

\* a loop guard that forgets the duration test
AdmitsNoDuration(grp, word_data) ==
    LET last_word_in_group == grp[Len(grp)]
        time_gap == word_data.start - last_word_in_group.end
        potential_text == Join(WordsText(grp) \o <<word_data.word>>)
        potential_width == get_text_width(potential_text, font_size)
    IN  /\ Len(grp) < max_words_per_group
        /\ time_gap <= max_gap_seconds
        /\ potential_width <= max_width_px

\* the if condition of the loop body
Admits(grp, word_data) ==
    LET last_word_in_group == grp[Len(grp)]
        time_gap == word_data.start - last_word_in_group.end
        total_time == last_word_in_group.end - grp[1].start
        potential_text == Join(WordsText(grp) \o <<word_data.word>>)
        potential_width == get_text_width(potential_text, font_size)
    IN  /\ Len(grp) < max_words_per_group
        /\ time_gap <= max_gap_seconds
        /\ potential_width <= max_width_px
        /\ total_time <= max_caption_duration_seconds

GroupParamsUnchanged ==
    UNCHANGED <<input_words, max_gap_seconds, max_width_px, font_size,
                max_words_per_group, max_caption_duration_seconds>>

InLoop == gpc = "loop" /\ idx <= Len(word_timestamps)

\* if not processed_word: continue
SkipBlankWord ==
    /\ InLoop
    /\ ProcessWord(word_timestamps[idx].word) = <<>>
    /\ idx' = idx + 1
    /\ last_step' = "skip"
    /\ UNCHANGED <<word_timestamps, current_group, caption_groups, gpc>>
    /\ GroupParamsUnchanged

\* if not current_group: current_group.append(word_data); continue
StartFirstGroup ==
    /\ InLoop
    /\ ProcessWord(word_timestamps[idx].word) # <<>>
    /\ current_group = <<>>
    /\ word_timestamps' = [word_timestamps EXCEPT ![idx] = CurrentWord]
    /\ current_group' = <<CurrentWord>>
    /\ idx' = idx + 1
    /\ last_step' = "start"
    /\ UNCHANGED <<caption_groups, gpc>>
    /\ GroupParamsUnchanged

\* the if branch: current_group.append(word_data)
AdmitWord ==
    /\ InLoop
    /\ ProcessWord(word_timestamps[idx].word) # <<>>
    /\ current_group # <<>>
    /\ Admits(current_group, CurrentWord)
    /\ word_timestamps' = [word_timestamps EXCEPT ![idx] = CurrentWord]
    /\ current_group' = Append(current_group, CurrentWord)
    /\ idx' = idx + 1
    /\ last_step' = "admit"
    /\ UNCHANGED <<caption_groups, gpc>>
    /\ GroupParamsUnchanged

\* the else branch: emit the current group, current_group = [word_data]
CloseGroup ==
    /\ InLoop
    /\ ProcessWord(word_timestamps[idx].word) # <<>>
    /\ current_group # <<>>
    /\ ~Admits(current_group, CurrentWord)
    /\ word_timestamps' = [word_timestamps EXCEPT ![idx] = CurrentWord]
    /\ caption_groups' = Append(caption_groups, MakeGroup(current_group))
    /\ current_group' = <<CurrentWord>>
    /\ idx' = idx + 1
    /\ last_step' = "close"
    /\ UNCHANGED gpc
    /\ GroupParamsUnchanged

\* a return that forgets the group still open after the loop
FlushForgotten ==
    /\ gpc = "loop"
    /\ idx > Len(word_timestamps)
    /\ gpc' = "done"
    /\ last_step' = "flush"
    /\ UNCHANGED <<word_timestamps, current_group, caption_groups, idx>>
    /\ GroupParamsUnchanged

\* after the loop: flush the open group and return caption_groups
\* (an empty list returns [] at once: the loop has nothing to visit)
FlushAndReturn ==
    /\ gpc = "loop"
    /\ idx > Len(word_timestamps)
    /\ caption_groups' =
          IF current_group # <<>> THEN Append(caption_groups, MakeGroup(current_group))
          ELSE caption_groups
    /\ gpc' = "done"
    /\ last_step' = "flush"
    /\ UNCHANGED <<word_timestamps, current_group, idx>>
    /\ GroupParamsUnchanged

(***************************************************************************)
(* Inputs of the grouping specification                                    *)
(***************************************************************************)
Texts == {<<" ">>, <<"a">>, <<" ", "b", "B">>}

\* a word lasts no longer than the smallest duration threshold drawn
WordDurations == {0, 1}

WordChoices ==
    {[word |-> t, start |-> s, end |-> s + d] :
        t \in Texts, s \in 0..MaxTime, d \in WordDurations}

\* word lists as the transcriber delivers them: ordered by start
InputLists ==
    {ws \in UNION {[1..n -> WordChoices] : n \in 0..MaxInputLen} :
        \A k \in 1..(Len(ws) - 1) : ws[k].start <= ws[k + 1].start}

\* lists with an empty string, alone and between words
EdgeLists ==
    {<<[word |-> <<>>, start |-> 0, end |-> 0]>>,
     <<[word |-> <<"a">>, start |-> 0, end |-> 1],
       [word |-> <<>>, start |-> 1, end |-> 1],
       [word |-> <<"b">>, start |-> 1, end |-> 2]>>}

\* spec.md, concrete scenarios 1 and 2
ScenarioWords ==
    <<[word |-> <<"I">>, start |-> 0, end |-> 3],
      [word |-> <<"L", "O", "V", "E">>, start |-> 3, end |-> 7],
      [word |-> <<"C", "O", "D", "I", "N", "G">>, start |-> 7, end |-> 12]>>

NoneInt == -999999

PlanIdle == width = 0 /\ height = 0 /\ plan_result = [op |-> "none"]

CreatorIdle ==
    /\ config = [preset |-> "none"]
    /\ needs_crop = FALSE
    /\ video = [open |-> FALSE]
    /\ active_font_size = NoneInt
    /\ active_stroke_width = NoneInt
    /\ active_line_spacing = NoneInt
    /\ active_shadow_offset = <<>>
    /\ active_shadow_blur = NoneInt
    /\ active_stroke_corner_radius = NoneInt
    /\ videos_done = 0
    /\ files = <<>>
    /\ video_duration = NoneInt
    /\ text_clips = <<>>
    /\ pc = "none"

ZoneIdle ==
    /\ video_width = 0
    /\ video_height = 0
    /\ caption_height = 0
    /\ position = "none"
    /\ padding = 0
    /\ zone_result = [op |-> "none"]

LayoutIdle ==
    /\ words_data = <<>>
    /\ caption_width = NoneInt
    /\ caption_parts = <<>>
    /\ lines = <<>>
    /\ total_height = 0
    /\ current_line = <<>>
    /\ current_line_width = 0
    /\ part_idx = 0
    /\ padding_x = NoneInt
    /\ img_width = NoneInt
    /\ x_start = <<>>
    /\ lpc = "none"

RasterIdle ==
    /\ line_ink = <<>>
    /\ img_size = <<0, 0>>
    /\ y_start = 0
    /\ text_mask = {}
    /\ expanded_mask = {}
    /\ final_img = <<>>
    /\ lines_drawn = 0

RenderIdle == ZoneIdle /\ LayoutIdle /\ RasterIdle

GroupIdle ==
    /\ word_timestamps = <<>>
    /\ input_words = <<>>
    /\ max_gap_seconds = 0
    /\ max_width_px = 0
    /\ font_size = 0
    /\ max_words_per_group = 0
    /\ max_caption_duration_seconds = 0
    /\ idx = 0
    /\ current_group = <<>>
    /\ caption_groups = <<>>
    /\ gpc = "none"
    /\ last_step = "none"

InitGroup ==
    /\ \/ /\ word_timestamps \in InputLists \cup EdgeLists
          /\ max_gap_seconds \in {0, 1}
          /\ max_width_px \in {3, 8}
          /\ font_size = 1
          /\ max_words_per_group \in 1..3
          /\ max_caption_duration_seconds \in {1, 2}
       \/ /\ word_timestamps = ScenarioWords
          /\ max_gap_seconds = 2
          /\ max_width_px = 10000
          /\ font_size = 80
          /\ max_words_per_group \in {1, 3}
          /\ max_caption_duration_seconds = 50
    /\ input_words = word_timestamps
    /\ idx = 1
    /\ current_group = <<>>
    /\ caption_groups = <<>>
    /\ gpc = "loop"
    /\ last_step = "none"
    /\ PlanIdle
    /\ CreatorIdle
    /\ RenderIdle

NextGroup ==
    \/ (SkipBlankWord /\ UNCHANGED <<planVars, creatorVars, renderVars>>)
    \/ (StartFirstGroup /\ UNCHANGED <<planVars, creatorVars, renderVars>>)
    \/ (AdmitWord /\ UNCHANGED <<planVars, creatorVars, renderVars>>)
    \/ (CloseGroup /\ UNCHANGED <<planVars, creatorVars, renderVars>>)
    \/ (FlushAndReturn /\ UNCHANGED <<planVars, creatorVars, renderVars>>)

SpecGroup == InitGroup /\ [][NextGroup]_vars

(***************************************************************************)
(* Claims about grouping                                                   *)
(***************************************************************************)
RECURSIVE ConcatWords(_)
ConcatWords(groups) ==
    IF groups = <<>> THEN <<>> ELSE Head(groups).words \o ConcatWords(Tail(groups))

NotBlank(w) == ProcessWord(w.word) # <<>>

\* the words of ws that are not empty or whitespace-only, in order, with the text
\* as grouping normalises it (stripped, upper-cased)
NonBlankWords(ws) ==
    LET kept == SelectSeq(ws, NotBlank)
    IN  [k \in 1..Len(kept) |-> [kept[k] EXCEPT !.word = ProcessWord(@)]]

GroupWidth(g) == get_text_width(Join(WordsText(g.words)), font_size)

\* C1: grouping is exhaustive and order-preserving.  At every point of the pass the
\* emitted groups followed by the open group hold exactly the non-blank words seen
\* so far, each once and in input order (their text stripped and upper-cased); on
\* return the emitted groups hold exactly the non-blank input words; no emitted
\* group is empty.
C1_Exhaustive ==
    /\ gpc = "loop" =>
          ConcatWords(caption_groups) \o current_group
             = NonBlankWords(SubSeq(input_words, 1, idx - 1))
    /\ gpc = "done" => ConcatWords(caption_groups) = NonBlankWords(input_words)
    /\ \A k \in 1..Len(caption_groups) : caption_groups[k].words # <<>>

\* a finished pass that skipped a blank word lying between two words of one group
C1_Witness ==
    /\ gpc = "done"
    /\ Len(input_words) = 3
    /\ ~NotBlank(input_words[2])
    /\ Len(caption_groups) = 1
    /\ Len(caption_groups[1].words) = 2
    /\ input_words[3].word # ProcessWord(input_words[3].word)

\* C2: every emitted group respects all thresholds: at most max_words_per_group
\* words, joined text no wider than max_width_px unless it is a single word, and
\* last word's end minus first word's start at most max_caption_duration_seconds.
C2_ThresholdsRespected ==
    \A k \in 1..Len(caption_groups) :
        LET g == caption_groups[k]
        IN  /\ Len(g.words) <= max_words_per_group
            /\ (GroupWidth(g) <= max_width_px \/ Len(g.words) = 1)
            /\ g.words[Len(g.words)].end - g.words[1].start
                  <= max_caption_duration_seconds

\* C3 (step rule): a non-blank word that meets a non-empty current group is appended
\* iff count, gap, width and duration guard (last end - first start of the group as
\* it stands) all hold; otherwise the group is emitted and the word opens a new one.
C3_StepRule ==
    (InLoop /\ current_group # <<>> /\ NotBlank(word_timestamps[idx])) =>
        LET w == [word_timestamps[idx] EXCEPT !.word = ProcessWord(@)]
            n == Len(current_group)
            allFour ==
                /\ n < max_words_per_group
                /\ w.start - current_group[n].end <= max_gap_seconds
                /\ get_text_width(Join(WordsText(current_group) \o <<w.word>>), font_size)
                      <= max_width_px
                /\ current_group[n].end - current_group[1].start
                      <= max_caption_duration_seconds
        IN  IF allFour
            THEN /\ current_group' = current_group \o <<w>>
                 /\ caption_groups' = caption_groups
            ELSE /\ current_group' = <<w>>
                 /\ Len(caption_groups') = Len(caption_groups) + 1
                 /\ SubSeq(caption_groups', 1, Len(caption_groups)) = caption_groups
                 /\ caption_groups'[Len(caption_groups')].words = current_group
                 /\ caption_groups'[Len(caption_groups')].start = current_group[1].start
                 /\ caption_groups'[Len(caption_groups')].end = current_group[n].end

\* C3 (consequences): with max_words_per_group = 1 every group is a single word; the
\* three gap-free scenario words form one group [0, 12) under the loose thresholds
\* and three groups [0,3), [3,7), [7,12) with max_words_per_group = 1.
C3_Consequences ==
    gpc = "done" =>
        /\ max_words_per_group = 1 =>
              \A k \in 1..Len(caption_groups) : Len(caption_groups[k].words) = 1
        /\ (input_words = ScenarioWords /\ max_words_per_group = 3) =>
              /\ Len(caption_groups) = 1
              /\ Len(caption_groups[1].words) = 3
              /\ caption_groups[1].start = 0 /\ caption_groups[1].end = 12
        /\ (input_words = ScenarioWords /\ max_words_per_group = 1) =>
              /\ Len(caption_groups) = 3
              /\ <<caption_groups[1].start, caption_groups[1].end>> = <<0, 3>>
              /\ <<caption_groups[2].start, caption_groups[2].end>> = <<3, 7>>
              /\ <<caption_groups[3].start, caption_groups[3].end>> = <<7, 12>>

\* C3: the grouping pass admits a word iff all four guards hold, with the stated
\* consequences for max_words_per_group = 1 and for three gap-free words.
C3_AdmitIffAllFour == [][C3_StepRule]_vars /\ []C3_Consequences

C3_Witness ==
    /\ last_step = "close"
    /\ Len(caption_groups[Len(caption_groups)].words) >= 2
    /\ Len(caption_groups[Len(caption_groups)].words) < max_words_per_group

(***************************************************************************)
(* AspectRatioValidator (aspect_validator.py)                              *)
(***************************************************************************)
\* TARGET_ASPECT = 9 / 16 and TOLERANCE = 0.02 = 2 / 100, as fractions
TargetNum == 9
TargetDen == 16
ToleranceNum == 2
ToleranceDen == 100

\* a/b < c/d for b # 0 and d > 0
RatioLess(a, b, c, d) == IF b > 0 THEN a * d < c * b ELSE a * d > c * b

\* a/b > c/d for b # 0 and d > 0
RatioGreater(a, b, c, d) == IF b > 0 THEN a * d > c * b ELSE a * d < c * b

\* abs(w/h - 9/16) <= 0.02.  (Exact as long as the difference is not exactly 0.02,
\* which needs a height that is a multiple of 400.)
IsValidRatio(w, h) ==
    ToleranceDen * Abs(TargetDen * w - TargetNum * h) <= ToleranceNum * TargetDen * Abs(h)

check_aspect_ratio(w, h) ==
    IF h = 0 THEN [op |-> "check_aspect_ratio", raised |-> "ZeroDivisionError"]
    ELSE [op |-> "check_aspect_ratio",
          raised |-> "none",
          is_valid |-> IsValidRatio(w, h),
          orientation |->
              IF RatioLess(w, h, 7, 10) THEN "portrait"
              ELSE IF RatioGreater(w, h, 13, 10) THEN "landscape"
              ELSE "square"]

\* a crop that takes the fraction of the wrong side in the wide branch
CropFromWrongSide(w, h) ==
    IF h = 0 THEN [op |-> "calculate_crop_dimensions", raised |-> "ZeroDivisionError"]
    ELSE IF RatioGreater(w, h, TargetNum, TargetDen)
    THEN LET new_width == TruncDiv(w * TargetNum, TargetDen)
             x1 == FloorHalf(w - new_width)
         IN  [op |-> "calculate_crop_dimensions", raised |-> "none",
              x1 |-> x1, y1 |-> 0, x2 |-> x1 + new_width, y2 |-> h]
    ELSE LET new_height == TruncDiv(w * TargetDen, TargetNum)
             y1 == FloorHalf(h - new_height)
         IN  [op |-> "calculate_crop_dimensions", raised |-> "none",
              x1 |-> 0, y1 |-> y1, x2 |-> w, y2 |-> y1 + new_height]

\* a crop that forgets to halve the margin (anchors the crop at the far edge)
CropNotCentred(w, h) ==
    IF h = 0 THEN [op |-> "calculate_crop_dimensions", raised |-> "ZeroDivisionError"]
    ELSE IF RatioGreater(w, h, TargetNum, TargetDen)
    THEN LET new_width == TruncDiv(h * TargetNum, TargetDen)
             x1 == w - new_width
         IN  [op |-> "calculate_crop_dimensions", raised |-> "none",
              x1 |-> x1, y1 |-> 0, x2 |-> x1 + new_width, y2 |-> h]
    ELSE LET new_height == TruncDiv(w * TargetDen, TargetNum)
             y1 == h - new_height
         IN  [op |-> "calculate_crop_dimensions", raised |-> "none",
              x1 |-> 0, y1 |-> y1, x2 |-> w, y2 |-> y1 + new_height]

calculate_crop_dimensions(w, h) ==
    IF h = 0 THEN [op |-> "calculate_crop_dimensions", raised |-> "ZeroDivisionError"]
    ELSE IF RatioGreater(w, h, TargetNum, TargetDen)
    THEN \* too wide: new_width = int(height * target_ratio)
         LET new_width == TruncDiv(h * TargetNum, TargetDen)
             x1 == FloorHalf(w - new_width)
         IN  [op |-> "calculate_crop_dimensions", raised |-> "none",
              x1 |-> x1, y1 |-> 0, x2 |-> x1 + new_width, y2 |-> h]
    ELSE \* too tall: new_height = int(width / target_ratio)
         LET new_height == TruncDiv(w * TargetDen, TargetNum)
             y1 == FloorHalf(h - new_height)
         IN  [op |-> "calculate_crop_dimensions", raised |-> "none",
              x1 |-> 0, y1 |-> y1, x2 |-> w, y2 |-> y1 + new_height]

\* a fit that takes the branches the wrong way round
FitWrongAxis(w, h, tw, th) ==
    IF h = 0 THEN {[op |-> "calculate_fit_dimensions", raised |-> "ZeroDivisionError"]}
    ELSE IF ~RatioGreater(w, h, tw, th) /\ w # 0
    THEN {[op |-> "calculate_fit_dimensions", raised |-> "none",
           target_width |-> tw, target_height |-> th,
           new_width |-> tw, new_height |-> new_height,
           x_offset |-> 0, y_offset |-> FloorHalf(th - new_height)] :
             new_height \in IntOfRatio(tw * h, w, ExactRatio(w, h))}
    ELSE {[op |-> "calculate_fit_dimensions", raised |-> "none",
           target_width |-> tw, target_height |-> th,
           new_width |-> new_width, new_height |-> th,
           x_offset |-> FloorHalf(tw - new_width), y_offset |-> 0] :
             new_width \in IntOfRatio(th * w, h, ExactRatio(w, h))}

\* the results calculate_fit_dimensions can return (tw, th > 0)
calculate_fit_dimensions(w, h, tw, th) ==
    IF h = 0 THEN {[op |-> "calculate_fit_dimensions", raised |-> "ZeroDivisionError"]}
    ELSE IF RatioGreater(w, h, tw, th)
    THEN \* wider: new_height = int(target_width / current_ratio)
         {[op |-> "calculate_fit_dimensions", raised |-> "none",
           target_width |-> tw, target_height |-> th,
           new_width |-> tw, new_height |-> new_height,
           x_offset |-> 0, y_offset |-> FloorHalf(th - new_height)] :
             new_height \in IntOfRatio(tw * h, w, ExactRatio(w, h))}
    ELSE \* taller: new_width = int(target_height * current_ratio)
         {[op |-> "calculate_fit_dimensions", raised |-> "none",
           target_width |-> tw, target_height |-> th,
           new_width |-> new_width, new_height |-> th,
           x_offset |-> FloorHalf(tw - new_width), y_offset |-> 0] :
             new_width \in IntOfRatio(th * w, h, ExactRatio(w, h))}

CheckAspectRatio ==
    /\ plan_result' = check_aspect_ratio(width, height)
    /\ UNCHANGED <<width, height>>

CalculateCropDimensions ==
    /\ plan_result' = calculate_crop_dimensions(width, height)
    /\ UNCHANGED <<width, height>>

CalculateFitDimensions ==
    /\ \E tw \in 1..MaxTarget, th \in 1..MaxTarget :
          plan_result' \in calculate_fit_dimensions(width, height, tw, th)
    /\ UNCHANGED <<width, height>>

\* spec.md, concrete scenario 3, and the reference frame
ScenarioDims == {<<1920, 1080>>, <<1080, 1920>>}

PlannerDims == (((-MaxBad)..MaxDim) \X ((-MaxBad)..MaxDim)) \cup ScenarioDims

InitPlan ==
    /\ \E d \in PlannerDims : width = d[1] /\ height = d[2]
    /\ plan_result = [op |-> "none"]
    /\ GroupIdle
    /\ CreatorIdle
    /\ RenderIdle

NextPlan ==
    \/ (CheckAspectRatio /\ UNCHANGED <<groupVars, creatorVars, renderVars>>)
    \/ (CalculateCropDimensions /\ UNCHANGED <<groupVars, creatorVars, renderVars>>)
    \/ (CalculateFitDimensions /\ UNCHANGED <<groupVars, creatorVars, renderVars>>)

SpecPlan == InitPlan /\ [][NextPlan]_vars

(***************************************************************************)
(* Claims about aspect-fit planning                                        *)
(***************************************************************************)
Returned(opname) == plan_result.op = opname /\ plan_result.raised = "none"

CropWidth == plan_result.x2 - plan_result.x1

CropHeight == plan_result.y2 - plan_result.y1

\* width/height of the rectangle is within TOLERANCE of TARGET_ASPECT
CropRatioWithinTolerance ==
    /\ CropHeight > 0
    /\ ToleranceDen * Abs(TargetDen * CropWidth - TargetNum * CropHeight)
          <= ToleranceNum * TargetDen * CropHeight

\* C4 as claimed: for all width > 0 and height > 0 the crop rectangle (the frame of
\* both the crop and the pad path) has a ratio within 0.02 of 9/16.
C4_RatioForAllSizes ==
    (Returned("calculate_crop_dimensions") /\ width > 0 /\ height > 0)
        => CropRatioWithinTolerance

\* C4 as amended: the ratio of the crop rectangle is within 0.02 of 9/16 for every
\* source at least 15 wide and 40 high (truncation to whole pixels breaks it below).
C4_RatioForLargeFrames ==
    (Returned("calculate_crop_dimensions") /\ width >= 15 /\ height >= 40)
        => CropRatioWithinTolerance

\* a frame of the amended range whose crop is truncated (not exactly 9:16)
C4_Witness ==
    /\ Returned("calculate_crop_dimensions")
    /\ width >= 15 /\ height >= 40
    /\ plan_result.x1 > 0
    /\ TargetDen * CropWidth # TargetNum * CropHeight

\* C5: for width > 0 and height > 0 the rectangle is non-empty and inside the source.
C5_RectInsideSource ==
    (Returned("calculate_crop_dimensions") /\ width > 0 /\ height > 0) =>
        /\ 0 <= plan_result.x1 /\ plan_result.x1 < plan_result.x2 /\ plan_result.x2 <= width
        /\ 0 <= plan_result.y1 /\ plan_result.y1 < plan_result.y2 /\ plan_result.y2 <= height

\* C6: centre crop with truncation: too wide keeps the height and floor(h*9/16)
\* columns from floor((w - newW)/2); otherwise keeps the width and floor(w*16/9)
\* rows from floor((h - newH)/2); 1920x1080 gives (656, 0, 1263, 1080).
C6_CentreCrop ==
    (Returned("calculate_crop_dimensions") /\ width > 0 /\ height > 0) =>
        /\ IF TargetDen * width > TargetNum * height
           THEN /\ plan_result.y1 = 0 /\ plan_result.y2 = height
                /\ TargetDen * CropWidth <= TargetNum * height
                /\ TargetNum * height < TargetDen * (CropWidth + 1)
                /\ 2 * plan_result.x1 <= width - CropWidth
                /\ width - CropWidth <= 2 * plan_result.x1 + 1
           ELSE /\ plan_result.x1 = 0 /\ plan_result.x2 = width
                /\ TargetNum * CropHeight <= TargetDen * width
                /\ TargetDen * width < TargetNum * (CropHeight + 1)
                /\ 2 * plan_result.y1 <= height - CropHeight
                /\ height - CropHeight <= 2 * plan_result.y1 + 1
        /\ (width = 1920 /\ height = 1080) =>
              <<plan_result.x1, plan_result.y1, plan_result.x2, plan_result.y2>>
                 = <<656, 0, 1263, 1080>>

C6_Witness ==
    /\ Returned("calculate_crop_dimensions")
    /\ width = 1920 /\ height = 1080
    /\ plan_result.x1 = 656

\* C8: with width <= 0 or height <= 0, check_aspect_ratio and
\* calculate_crop_dimensions end in an error instead of returning.
C8_FailFast ==
    ((width <= 0 \/ height <= 0)
        /\ plan_result.op \in {"check_aspect_ratio", "calculate_crop_dimensions"})
        => plan_result.raised # "none"

\* C9: for positive source and target sizes the fitted content lies inside the
\* target box and touches it on one axis, offsets are non-negative and zero on the
\* fitted axis, and the two bars on the other axis differ by at most one pixel.
C9_FitInsideBox ==
    (Returned("calculate_fit_dimensions") /\ width > 0 /\ height > 0) =>
        LET r == plan_result
        IN  /\ r.new_width <= r.target_width
            /\ r.new_height <= r.target_height
            /\ (r.new_width = r.target_width \/ r.new_height = r.target_height)
            /\ r.x_offset >= 0 /\ r.y_offset >= 0
            /\ (r.new_width = r.target_width => r.x_offset = 0)
            /\ (r.new_height = r.target_height => r.y_offset = 0)
            /\ 2 * r.x_offset <= r.target_width - r.new_width
            /\ r.target_width - r.new_width <= 2 * r.x_offset + 1
            /\ 2 * r.y_offset <= r.target_height - r.new_height
            /\ r.target_height - r.new_height <= 2 * r.y_offset + 1

\* a letterbox whose two bars differ by one pixel
C9_Witness ==
    /\ Returned("calculate_fit_dimensions")
    /\ width > 0 /\ height > 0
    /\ plan_result.y_offset > 0
    /\ (plan_result.target_height - plan_result.new_height) % 2 = 1

(***************************************************************************)
(* SafeZone (safe_zone.py)                                                 *)
(***************************************************************************)
STANDARD_WIDTH == 1080
STANDARD_HEIGHT == 1920
TOP_SAFE_ZONE == 252
BOTTOM_SAFE_ZONE == 756
LEFT_SAFE_ZONE == 120
RIGHT_SAFE_ZONE == 240

\* int(zone * scale) with scale = side / standard, as the set of values the double
\* computation can give.
ScaledZone(zone, side, standard) ==
    IntOfRatio(zone * side, standard, ExactRatio(side, standard))

\* The y returned by a get_caption_position that clamps to the frame.
CaptionYClamped(vh, ch, pos, pad, top_safe, bottom_safe) ==
    LET y == IF pos = "top" THEN top_safe + pad
             ELSE IF pos = "center"
                  THEN top_safe + FloorHalf((vh - top_safe - bottom_safe) - ch)
                  ELSE vh - bottom_safe - ch - pad
    IN  IF y < 0 THEN 0 ELSE y

\* The if / elif / else of get_caption_position on the two scaled margins.
CaptionY(vh, ch, pos, pad, top_safe, bottom_safe) ==
    IF pos = "top" THEN top_safe + pad
    ELSE IF pos = "center"
         THEN LET safe_area_height == vh - top_safe - bottom_safe
              IN  top_safe + FloorHalf(safe_area_height - ch)
         ELSE vh - bottom_safe - ch - pad

\* SafeZone.get_caption_position: the set of ("center", y) it can return.
get_caption_position(vw, vh, ch, pos, pad) ==
    {[op |-> "get_caption_position", x |-> "center",
      y |-> CaptionY(vh, ch, pos, pad, top_safe, bottom_safe)] :
        top_safe \in ScaledZone(TOP_SAFE_ZONE, vh, STANDARD_HEIGHT),
        bottom_safe \in ScaledZone(BOTTOM_SAFE_ZONE, vh, STANDARD_HEIGHT)}

\* SafeZone.get_safe_area_bounds: the set of dicts it can return.
get_safe_area_bounds(vw, vh) ==
    {[op |-> "get_safe_area_bounds",
      top |-> t, bottom |-> vh - b, left |-> l, right |-> vw - r,
      width |-> (vw - r) - l, height |-> (vh - b) - t] :
        t \in ScaledZone(TOP_SAFE_ZONE, vh, STANDARD_HEIGHT),
        b \in ScaledZone(BOTTOM_SAFE_ZONE, vh, STANDARD_HEIGHT),
        l \in ScaledZone(LEFT_SAFE_ZONE, vw, STANDARD_WIDTH),
        r \in ScaledZone(RIGHT_SAFE_ZONE, vw, STANDARD_WIDTH)}

(***************************************************************************)
(* CaptionCreator (caption_creator.py)                                     *)
(***************************************************************************)
\* the clip after AspectRatioValidator.crop_to_9_16: the crop rectangle of the source
crop_to_9_16(w, h) ==
    LET r == calculate_crop_dimensions(w, h)
    IN  [open |-> TRUE,
         source |-> <<w, h>>,
         size |-> <<r.x2 - r.x1, r.y2 - r.y1>>,
         shown |-> <<r.x1, r.y1, r.x2, r.y2>>,
         content |-> <<r.x2 - r.x1, r.y2 - r.y1>>,
         position |-> <<0, 0>>]

\* the clips AspectRatioValidator.resize_and_pad_to_9_16 can return: a background
\* of the target size with the whole source resized and placed on it
resize_and_pad_to_9_16(w, h, target_width, target_height) ==
    IF RatioGreater(w, h, target_width, target_height)
    THEN \* wider: fit to width, bars above and below
         {[open |-> TRUE,
           source |-> <<w, h>>,
           size |-> <<target_width, target_height>>,
           shown |-> <<0, 0, w, h>>,
           content |-> <<target_width, new_height>>,
           position |-> <<0, FloorHalf(target_height - new_height)>>] :
             new_height \in IntOfRatio(target_width * h, w, ExactRatio(w, h))}
    ELSE \* taller: fit to height, bars left and right
         {[open |-> TRUE,
           source |-> <<w, h>>,
           size |-> <<target_width, target_height>>,
           shown |-> <<0, 0, w, h>>,
           content |-> <<new_width, target_height>>,
           position |-> <<FloorHalf(target_width - new_width), 0>>] :
             new_width \in IntOfRatio(target_height * w, h, ExactRatio(w, h))}

\* self.video after _load_video_data, for a source of w x h
LoadedVideos(w, h, crop) ==
    IF crop THEN {crop_to_9_16(w, h)}
    ELSE LET r == calculate_crop_dimensions(w, h)
         IN  resize_and_pad_to_9_16(w, h, r.x2 - r.x1, r.y2 - r.y1)

\* set_video up to the call of _load_video_data: "raise" or the value of needs_crop
SetVideoDecision(cfg, w, h) ==
    IF cfg.enforce_9_16
    THEN IF ~check_aspect_ratio(w, h).is_valid
         THEN IF cfg.reject_invalid_aspect THEN "raise"
              ELSE IF cfg.auto_crop_to_9_16 THEN "crop" ELSE "pad"
         ELSE "pad"
    ELSE "pad"

\* a scale factor taken from the frame's height
ActiveStylesByHeight(cfg, size) ==
    IF cfg.use_dynamic_font_size
    THEN LET vw == size[2]
             std == cfg.standard_video_width
             Scaled(base) == IntOfRatio(base * vw, std, ExactRatio(vw, std))
         IN  {[font_size |-> fs, stroke_width |-> sw, line_spacing |-> ls,
               shadow_offset |-> <<sx, sy>>, shadow_blur |-> sb,
               stroke_corner_radius |-> cr] :
                 fs \in Scaled(cfg.font_size),
                 sw \in Scaled(cfg.stroke_width),
                 ls \in Scaled(cfg.line_spacing),
                 sx \in Scaled(cfg.shadow_offset[1]),
                 sy \in Scaled(cfg.shadow_offset[2]),
                 sb \in Scaled(cfg.shadow_blur_radius),
                 cr \in Scaled(cfg.stroke_corner_radius)}
    ELSE {[font_size |-> cfg.font_size,
           stroke_width |-> cfg.stroke_width,
           line_spacing |-> cfg.line_spacing,
           shadow_offset |-> cfg.shadow_offset,
           shadow_blur |-> cfg.shadow_blur_radius,
           stroke_corner_radius |-> cfg.stroke_corner_radius]}

\* the active style values generate can set, for a frame of the given size:
\* int(base * scale_factor) with scale_factor = video_width / standard_video_width
ActiveStyles(cfg, size) ==
    IF cfg.use_dynamic_font_size
    THEN LET vw == size[1]
             std == cfg.standard_video_width
             Scaled(base) == IntOfRatio(base * vw, std, ExactRatio(vw, std))
         IN  {[font_size |-> fs, stroke_width |-> sw, line_spacing |-> ls,
               shadow_offset |-> <<sx, sy>>, shadow_blur |-> sb,
               stroke_corner_radius |-> cr] :
                 fs \in Scaled(cfg.font_size),
                 sw \in Scaled(cfg.stroke_width),
                 ls \in Scaled(cfg.line_spacing),
                 sx \in Scaled(cfg.shadow_offset[1]),
                 sy \in Scaled(cfg.shadow_offset[2]),
                 sb \in Scaled(cfg.shadow_blur_radius),
                 cr \in Scaled(cfg.stroke_corner_radius)}
    ELSE {[font_size |-> cfg.font_size,
           stroke_width |-> cfg.stroke_width,
           line_spacing |-> cfg.line_spacing,
           shadow_offset |-> cfg.shadow_offset,
           shadow_blur |-> cfg.shadow_blur_radius,
           stroke_corner_radius |-> cfg.stroke_corner_radius]}

\* the video file generate is called with next
NextFile == files[videos_done + 1]

\* generate -> set_video: the aspect check rejects the video (ValueError)
SetVideoRejects ==
    /\ pc = "idle"
    /\ videos_done < Len(files)
    /\ SetVideoDecision(config, NextFile.size[1], NextFile.size[2]) = "raise"
    /\ pc' = "failed"
    /\ UNCHANGED <<config, needs_crop, video, activeVars, videos_done, files,
                   video_duration, text_clips>>
    /\ UNCHANGED groupVars

\* generate -> set_video -> _load_video_data: the clip is loaded and fitted, and the
\* video is transcribed if self.word_timestamps is empty
SetVideo ==
    /\ pc = "idle"
    /\ videos_done < Len(files)
    /\ LET d == NextFile.size
       IN  /\ SetVideoDecision(config, d[1], d[2]) # "raise"
           /\ needs_crop' = (SetVideoDecision(config, d[1], d[2]) = "crop")
           /\ video' \in LoadedVideos(d[1], d[2], needs_crop')
    /\ video_duration' = NextFile.duration
    /\ word_timestamps' = IF word_timestamps = <<>> THEN NextFile.speech
                          ELSE word_timestamps
    /\ pc' = "loaded"
    /\ UNCHANGED <<config, activeVars, videos_done, files, text_clips>>
    /\ UNCHANGED <<input_words, max_gap_seconds, max_width_px, font_size,
                   max_words_per_group, max_caption_duration_seconds, idx,
                   current_group, caption_groups, gpc, last_step>>

\* generate: the active style values
SetActiveStyle ==
    /\ pc = "loaded"
    /\ \E st \in ActiveStyles(config, video.size) :
          /\ active_font_size' = st.font_size
          /\ active_stroke_width' = st.stroke_width
          /\ active_line_spacing' = st.line_spacing
          /\ active_shadow_offset' = st.shadow_offset
          /\ active_shadow_blur' = st.shadow_blur
          /\ active_stroke_corner_radius' = st.stroke_corner_radius
    /\ pc' = "styled"
    /\ UNCHANGED <<config, needs_crop, video, videos_done, files, video_duration,
                   text_clips>>
    /\ UNCHANGED groupVars

\* default arguments of utils.group_words_by_time_and_width, in words and ticks
DefaultMaxWordsPerGroup == 3
DefaultMaxCaptionDuration == 6

\* generate: max_caption_width, as the set of values the scaling can give
MaxCaptionWidths ==
    IF config.use_safe_zone_for_width
    THEN {b.width : b \in get_safe_area_bounds(video.size[1], video.size[2])}
    ELSE {video.size[1] - config.grouping_left_padding - config.grouping_right_padding}

\* ImageFont.truetype rejects a font size of 0; it is called for the width of a
\* second word of a group and for every clip rendered
FontUsable == active_font_size > 0 \/ SelectSeq(word_timestamps, NotBlank) = <<>>

\* generate fails on the font (the exception leaves generate and the batch loop)
FontFails ==
    /\ pc = "styled"
    /\ ~FontUsable
    /\ pc' = "failed"
    /\ UNCHANGED <<config, needs_crop, video, activeVars, videos_done, files,
                   video_duration, text_clips>>
    /\ UNCHANGED groupVars

\* generate: the call of utils.group_words_by_time_and_width on self.word_timestamps
StartGrouping ==
    /\ pc = "styled"
    /\ FontUsable
    /\ input_words' = word_timestamps
    /\ max_gap_seconds' = config.grouping_max_gap_seconds
    /\ max_width_px' \in MaxCaptionWidths
    /\ font_size' = active_font_size
    /\ max_words_per_group' = DefaultMaxWordsPerGroup
    /\ max_caption_duration_seconds' = DefaultMaxCaptionDuration
    /\ idx' = 1
    /\ current_group' = <<>>
    /\ caption_groups' = <<>>
    /\ gpc' = "loop"
    /\ last_step' = "none"
    /\ pc' = "grouping"
    /\ UNCHANGED <<config, needs_crop, video, activeVars, videos_done, files,
                   video_duration, text_clips, word_timestamps>>

\* the clip of group i: with_start(start_time), with_duration(duration)
ClipOf(groups, i, clip_end) ==
    LET start_time == groups[i].start
        duration == IF i + 1 <= Len(groups) THEN groups[i + 1].start - start_time
                    ELSE clip_end - start_time
    IN  [group |-> i, words |-> groups[i].words, start |-> start_time,
         duration |-> duration]

\* whether the loop renders the clip or skips it with `continue`
ClipKept(clip) == ~(clip.start >= video_duration \/ clip.duration <= 0)

\* generate: the loop of lines 369-389 over caption_groups
CreateTextClips ==
    /\ pc = "grouping"
    /\ gpc = "done"
    /\ text_clips' = SelectSeq([i \in 1..Len(caption_groups) |->
                                   ClipOf(caption_groups, i, video_duration)],
                               ClipKept)
    /\ pc' = "clips"
    /\ UNCHANGED <<config, needs_crop, video, activeVars, videos_done, files,
                   video_duration>>
    /\ UNCHANGED groupVars

\* generate: the composite is written and generate returns; its locals are gone,
\* self.word_timestamps, self.video and the active style stay
WriteVideo ==
    /\ pc = "clips"
    /\ videos_done' = videos_done + 1
    /\ text_clips' = <<>>
    /\ input_words' = <<>>
    /\ max_gap_seconds' = 0
    /\ max_width_px' = 0
    /\ font_size' = 0
    /\ max_words_per_group' = 0
    /\ max_caption_duration_seconds' = 0
    /\ idx' = 0
    /\ current_group' = <<>>
    /\ caption_groups' = <<>>
    /\ gpc' = "none"
    /\ last_step' = "none"
    /\ pc' = "idle"
    /\ UNCHANGED <<config, needs_crop, video, activeVars, files, video_duration,
                   word_timestamps>>

\* Config(): the defaults of config.py, and a small style on a 9-pixel reference
StylePresets ==
    {[standard_video_width |-> 1080, font_size |-> 80, stroke_width |-> 10,
      stroke_corner_radius |-> 6, line_spacing |-> 10, shadow_offset |-> <<6, 6>>,
      shadow_blur_radius |-> 20],
     [standard_video_width |-> 9, font_size |-> 7, stroke_width |-> 3,
      stroke_corner_radius |-> 2, line_spacing |-> 1, shadow_offset |-> <<2, -1>>,
      shadow_blur_radius |-> 5]}

\* what the transcriber returns for three videos: two words 0.2 s apart, one word
\* followed by a blank token, and no speech
SpeechA ==
    <<[word |-> <<"a">>, start |-> 0, end |-> 1],
      [word |-> <<" ", "b">>, start |-> 3, end |-> 4]>>
SpeechB ==
    <<[word |-> <<"I">>, start |-> 1, end |-> 2],
      [word |-> <<" ">>, start |-> 2, end |-> 2]>>
NoSpeech == <<>>

\* Config.word_timestamps: empty by default, or set by the caller
PresetWordTimestamps == {<<>>, <<[word |-> <<"B">>, start |-> 0, end |-> 2]>>}

Configs ==
    {[enforce_9_16 |-> e, reject_invalid_aspect |-> r, auto_crop_to_9_16 |-> a,
      use_dynamic_font_size |-> u,
      standard_video_width |-> p.standard_video_width,
      font_size |-> p.font_size,
      stroke_width |-> p.stroke_width,
      stroke_corner_radius |-> p.stroke_corner_radius,
      line_spacing |-> p.line_spacing,
      shadow_offset |-> p.shadow_offset,
      shadow_blur_radius |-> p.shadow_blur_radius,
      grouping_max_gap_seconds |-> 2,
      use_safe_zone_for_width |-> TRUE,
      grouping_left_padding |-> 60,
      grouping_right_padding |-> 120,
      word_timestamps |-> <<>>] :
        e \in BOOLEAN, r \in BOOLEAN, a \in BOOLEAN, u \in BOOLEAN, p \in StylePresets}

\* configurations for a folder of several videos: no aspect enforcement
BatchConfigs ==
    {[c EXCEPT !.word_timestamps = wt, !.use_safe_zone_for_width = z] :
        c \in {k \in Configs : ~k.enforce_9_16 /\ ~k.reject_invalid_aspect
                               /\ ~k.auto_crop_to_9_16},
        wt \in PresetWordTimestamps, z \in BOOLEAN}

\* a single input video: any size, 0.5 s long, with the speech of SpeechA
SingleFiles ==
    {<<[size |-> d, duration |-> 5, speech |-> SpeechA]>> :
        d \in {<<w, h>> : w \in 2..MaxSide, h \in 2..MaxSide} \cup ScenarioDims}

\* the videos of an input folder
FolderFiles ==
    {[size |-> <<9, 16>>, duration |-> 5, speech |-> SpeechA],
     [size |-> <<9, 16>>, duration |-> 2, speech |-> SpeechB],
     [size |-> <<1080, 1920>>, duration |-> 3, speech |-> NoSpeech]}

RECURSIVE FileLists(_)
FileLists(n) ==
    IF n = 0 THEN {<<>>}
    ELSE {Append(l, f) : l \in FileLists(n - 1), f \in FolderFiles}

\* CaptionCreator.__init__, and the files the main program will hand to generate
Init ==
    /\ \/ config \in Configs /\ files \in SingleFiles
       \/ config \in BatchConfigs /\ \E n \in 2..MaxVideos : files \in FileLists(n)
    /\ needs_crop = FALSE
    /\ video = [open |-> FALSE]
    /\ active_font_size = NoneInt
    /\ active_stroke_width = NoneInt
    /\ active_line_spacing = NoneInt
    /\ active_shadow_offset = <<>>
    /\ active_shadow_blur = NoneInt
    /\ active_stroke_corner_radius = NoneInt
    /\ videos_done = 0
    /\ video_duration = NoneInt
    /\ text_clips = <<>>
    /\ pc = "idle"
    /\ word_timestamps = config.word_timestamps
    /\ input_words = <<>>
    /\ max_gap_seconds = 0
    /\ max_width_px = 0
    /\ font_size = 0
    /\ max_words_per_group = 0
    /\ max_caption_duration_seconds = 0
    /\ idx = 0
    /\ current_group = <<>>
    /\ caption_groups = <<>>
    /\ gpc = "none"
    /\ last_step = "none"
    /\ PlanIdle
    /\ RenderIdle

Next ==
    \/ (SetVideoRejects /\ UNCHANGED <<planVars, renderVars>>)
    \/ (SetVideo /\ UNCHANGED <<planVars, renderVars>>)
    \/ (SetActiveStyle /\ UNCHANGED <<planVars, renderVars>>)
    \/ (FontFails /\ UNCHANGED <<planVars, renderVars>>)
    \/ (StartGrouping /\ UNCHANGED <<planVars, renderVars>>)
    \/ (SkipBlankWord /\ UNCHANGED <<planVars, creatorVars, renderVars>>)
    \/ (StartFirstGroup /\ UNCHANGED <<planVars, creatorVars, renderVars>>)
    \/ (AdmitWord /\ UNCHANGED <<planVars, creatorVars, renderVars>>)
    \/ (CloseGroup /\ UNCHANGED <<planVars, creatorVars, renderVars>>)
    \/ (FlushAndReturn /\ UNCHANGED <<planVars, creatorVars, renderVars>>)
    \/ (CreateTextClips /\ UNCHANGED <<planVars, renderVars>>)
    \/ (WriteVideo /\ UNCHANGED <<planVars, renderVars>>)

Spec == Init /\ [][Next]_vars

(***************************************************************************)
(* Claims about the CaptionCreator                                         *)
(***************************************************************************)
\* C7: when the source ratio is valid (|w/h - 9/16| <= 0.02; set_video ran the check
\* and found it so) no geometric transform is applied: the loaded frame has the
\* source's size and shows the whole source, unscaled, at offset (0, 0).
C7_ValidSourceUntouched ==
    (video.open /\ config.enforce_9_16
        /\ check_aspect_ratio(video.source[1], video.source[2]).is_valid) =>
        /\ video.size = video.source
        /\ video.shown = <<0, 0, video.source[1], video.source[2]>>
        /\ video.content = video.source
        /\ video.position = <<0, 0>>

\* C10: with a frame as wide as the reference width, or with dynamic scaling
\* disabled, every active style value set by generate equals its configured base.
C10_FactorOneIsNoOp ==
    (pc = "styled"
        /\ (video.size[1] = config.standard_video_width \/ ~config.use_dynamic_font_size))
    =>  /\ active_font_size = config.font_size
        /\ active_stroke_width = config.stroke_width
        /\ active_stroke_corner_radius = config.stroke_corner_radius
        /\ active_line_spacing = config.line_spacing
        /\ active_shadow_offset = config.shadow_offset
        /\ active_shadow_blur = config.shadow_blur_radius

\* dynamic scaling on a padded frame that is as wide as the reference but not as high
C10_Witness ==
    /\ pc = "styled"
    /\ config.use_dynamic_font_size
    /\ video.size[1] = config.standard_video_width
    /\ video.size[2] # video.size[1]
    /\ video.source # video.size
    /\ active_shadow_offset = <<2, -1>>

(***************************************************************************)
(* SafeZone calls, one per behaviour                                       *)
(***************************************************************************)
GetCaptionPosition ==
    /\ zone_result.op = "none"
    /\ zone_result' \in get_caption_position(video_width, video_height,
                                              caption_height, position, padding)
    /\ UNCHANGED <<video_width, video_height, caption_height, position, padding>>

GetSafeAreaBounds ==
    /\ zone_result.op = "none"
    /\ zone_result' \in get_safe_area_bounds(video_width, video_height)
    /\ UNCHANGED <<video_width, video_height, caption_height, position, padding>>

MaxZoneSide == 40       \* frame sides 1..MaxZoneSide are drawn for the safe zone
MaxCaptionHeight == 6   \* caption heights 0..MaxCaptionHeight are drawn

ZoneWidths == {9, 1080, 1107}
ZoneHeights == 1..MaxZoneSide \cup {1080, 1920}
CaptionHeights == 0..MaxCaptionHeight \cup {100}
Positions == {"top", "center", "bottom"}
Paddings == {0, 20}

InitZone ==
    /\ video_width \in ZoneWidths
    /\ video_height \in ZoneHeights
    /\ caption_height \in CaptionHeights
    /\ position \in Positions
    /\ padding \in Paddings
    /\ zone_result = [op |-> "none"]
    /\ GroupIdle
    /\ PlanIdle
    /\ CreatorIdle
    /\ LayoutIdle
    /\ RasterIdle

NextZone ==
    \/ (GetCaptionPosition
        /\ UNCHANGED <<groupVars, planVars, creatorVars, layoutVars, rasterVars>>)
    \/ (GetSafeAreaBounds
        /\ UNCHANGED <<groupVars, planVars, creatorVars, layoutVars, rasterVars>>)

SpecZone == InitZone /\ [][NextZone]_vars

\* m is the margin `zone` scaled by video_height / 1920 and truncated.
IsTruncatedScale(m, zone) ==
    /\ STANDARD_HEIGHT * m <= zone * video_height
    /\ zone * video_height < STANDARD_HEIGHT * (m + 1)

\* C11: get_caption_position returns y = scaledTop + padding for "top" and
\* y = videoH - scaledBottom - captionH - padding for "bottom", where scaledTop and
\* scaledBottom are 252 and 756 scaled by videoH / 1920 and truncated; y is not
\* clamped; and videoH = 1920, captionH = 100, "bottom", padding = 20 gives y = 1044.
C11_CaptionPosition ==
    zone_result.op = "get_caption_position" =>
        /\ position = "top" =>
              \E scaledTop \in 0..video_height :
                 /\ IsTruncatedScale(scaledTop, 252)
                 /\ zone_result.y = scaledTop + padding
        /\ position = "bottom" =>
              \E scaledBottom \in 0..video_height :
                 /\ IsTruncatedScale(scaledBottom, 756)
                 /\ zone_result.y = video_height - scaledBottom - caption_height - padding
        /\ (video_height = 1920 /\ caption_height = 100 /\ position = "bottom"
            /\ padding = 20) => zone_result.y = 1044

C11_Witness ==
    /\ zone_result.op = "get_caption_position"
    /\ video_height = 1920
    /\ caption_height = 100
    /\ position = "bottom"
    /\ padding = 20
    /\ zone_result.y = 1044

(***************************************************************************)
(* CaptionCreator._create_text_clip: line wrap and horizontal placement    *)
(***************************************************************************)
\* the characters of word.strip('.,!?;:"')
IsPunctuation(c) == c \in {".", ",", "!", "?", ";", ":", "\""}

RECURSIVE LStripPunctuation(_)
LStripPunctuation(s) ==
    IF s # <<>> /\ IsPunctuation(Head(s)) THEN LStripPunctuation(Tail(s)) ELSE s

RECURSIVE RStripPunctuation(_)
RStripPunctuation(s) ==
    IF s # <<>> /\ IsPunctuation(s[Len(s)])
    THEN RStripPunctuation(SubSeq(s, 1, Len(s) - 1))
    ELSE s

\* CaptionCreator._clean_word
clean_word(word) == UpperAll(RStripPunctuation(LStripPunctuation(word)))

\* font.getmetrics() at font size 1 (the font's metrics)
FontAscent == 2
FontDescent == 1

\* line_height_from_font = ascent + descent
line_height_from_font == active_font_size * (FontAscent + FontDescent)

\* font.getlength(" ")
space_width == get_text_width(<<" ">>, active_font_size)

\* self.config.caption_width_ratio = 0.9, as the fraction 9/10
CaptionWidthRatioNum == 9
CaptionWidthRatioDen == 10

\* the tuple appended to lines: the line's words and its width net of the last space
MakeLine(line, line_width) == [words |-> line, width |-> line_width - space_width]

\* lines 221-234: caption_width, caption_parts and the initial values of the loop
BuildCaptionParts ==
    /\ lpc = "start"
    /\ caption_width' = (CaptionWidthRatioNum * video.size[1]) \div CaptionWidthRatioDen
    /\ caption_parts' = [j \in 1..Len(words_data) |-> clean_word(words_data[j])]
    /\ lines' = <<>>
    /\ total_height' = 0
    /\ current_line' = <<>>
    /\ current_line_width' = 0
    /\ part_idx' = 1
    /\ lpc' = "wrap"
    /\ UNCHANGED <<words_data, padding_x, img_width, x_start>>

\* a wrap step that breaks the line without asking whether it holds a word
WrapWordWithoutLineTest ==
    /\ lpc = "wrap"
    /\ part_idx <= Len(caption_parts)
    /\ LET word == caption_parts[part_idx]
           word_width == get_text_width(word, active_font_size)
           break == current_line_width + word_width > caption_width
       IN  /\ lines' = IF break THEN Append(lines, MakeLine(current_line, current_line_width))
                       ELSE lines
           /\ total_height' = IF break
                              THEN total_height + line_height_from_font + active_line_spacing
                              ELSE total_height
           /\ current_line' = Append(IF break THEN <<>> ELSE current_line,
                                     [word |-> word, word_width |-> word_width])
           /\ current_line_width' = (IF break THEN 0 ELSE current_line_width)
                                    + word_width + space_width
    /\ part_idx' = part_idx + 1
    /\ UNCHANGED <<words_data, caption_width, caption_parts, padding_x, img_width,
                   x_start, lpc>>

\* one iteration of the for loop of lines 235-242
WrapWord ==
    /\ lpc = "wrap"
    /\ part_idx <= Len(caption_parts)
    /\ LET word == caption_parts[part_idx]
           word_width == get_text_width(word, active_font_size)
           break == current_line # <<>> /\ current_line_width + word_width > caption_width
       IN  /\ lines' = IF break THEN Append(lines, MakeLine(current_line, current_line_width))
                       ELSE lines
           /\ total_height' = IF break
                              THEN total_height + line_height_from_font + active_line_spacing
                              ELSE total_height
           /\ current_line' = Append(IF break THEN <<>> ELSE current_line,
                                     [word |-> word, word_width |-> word_width])
           /\ current_line_width' = (IF break THEN 0 ELSE current_line_width)
                                    + word_width + space_width
    /\ part_idx' = part_idx + 1
    /\ UNCHANGED <<words_data, caption_width, caption_parts, padding_x, img_width,
                   x_start, lpc>>

\* lines 243-256: the last line is appended and the image is sized
FinishWrap ==
    /\ lpc = "wrap"
    /\ part_idx > Len(caption_parts)
    /\ lines' = IF current_line # <<>>
                THEN Append(lines, MakeLine(current_line, current_line_width))
                ELSE lines
    /\ total_height' = IF current_line # <<>> THEN total_height + line_height_from_font
                       ELSE total_height
    /\ LET total_expansion == active_stroke_width + active_stroke_corner_radius
       IN  /\ padding_x' = total_expansion + Abs(active_shadow_offset[1])
           /\ img_width' = caption_width + (total_expansion + Abs(active_shadow_offset[1])) * 2
    /\ x_start' = <<>>
    /\ lpc' = "place"
    /\ UNCHANGED <<words_data, caption_width, caption_parts, current_line,
                   current_line_width, part_idx>>

\* lines 258-262: x_start of the next line, as the exact fraction num / den
PlaceLine ==
    /\ lpc = "place"
    /\ Len(x_start) < Len(lines)
    /\ LET line_width == lines[Len(x_start) + 1].width
       IN  x_start' = Append(x_start,
                             IF config.horizontal_align = "center"
                             THEN [num |-> img_width - line_width, den |-> 2]
                             ELSE [num |-> padding_x, den |-> 1])
    /\ UNCHANGED <<words_data, caption_width, caption_parts, lines, total_height,
                   current_line, current_line_width, part_idx, padding_x, img_width, lpc>>

MaxGroupWords == 3      \* most words in the group handed to _create_text_clip
MaxFrameWidth == 9      \* widest frame drawn for the layout

LayoutWords == {<<"I">>, <<"a", "b">>, <<"!">>, <<"a", "b", "a", "b", "!">>}

RECURSIVE WordLists(_)
WordLists(n) ==
    IF n = 0 THEN {<<>>}
    ELSE WordLists(n - 1) \cup {Append(l, w) : l \in {m \in WordLists(n - 1) : Len(m) = n - 1},
                                               w \in LayoutWords}

HorizontalAligns == {"center", "left", "right"}

LayoutStyles ==
    {[stroke_width |-> 1, stroke_corner_radius |-> 0, shadow_offset |-> <<0, 0>>],
     [stroke_width |-> 1, stroke_corner_radius |-> 1, shadow_offset |-> <<-1, 1>>]}

\* the CaptionCreator at the call of _create_text_clip, and the group it is given
InitLayout ==
    /\ words_data \in WordLists(MaxGroupWords)
    /\ \E w \in 3..MaxFrameWidth :
          video = [open |-> TRUE, source |-> <<w, 16>>, size |-> <<w, 16>>,
                   shown |-> <<0, 0, w, 16>>, content |-> <<w, 16>>, position |-> <<0, 0>>]
    /\ \E a \in HorizontalAligns : config = [preset |-> "layout", horizontal_align |-> a]
    /\ \E st \in LayoutStyles :
          /\ active_stroke_width = st.stroke_width
          /\ active_stroke_corner_radius = st.stroke_corner_radius
          /\ active_shadow_offset = st.shadow_offset
    /\ active_font_size = 1
    /\ active_line_spacing = 1
    /\ active_shadow_blur = 0
    /\ needs_crop = FALSE
    /\ videos_done = 0
    /\ files = <<>>
    /\ video_duration = NoneInt
    /\ text_clips = <<>>
    /\ pc = "none"
    /\ caption_width = NoneInt
    /\ caption_parts = <<>>
    /\ lines = <<>>
    /\ total_height = 0
    /\ current_line = <<>>
    /\ current_line_width = 0
    /\ part_idx = 0
    /\ padding_x = NoneInt
    /\ img_width = NoneInt
    /\ x_start = <<>>
    /\ lpc = "start"
    /\ GroupIdle
    /\ PlanIdle
    /\ ZoneIdle
    /\ RasterIdle

NextLayout ==
    \/ (BuildCaptionParts
        /\ UNCHANGED <<groupVars, planVars, creatorVars, zoneVars, rasterVars>>)
    \/ (WrapWord /\ UNCHANGED <<groupVars, planVars, creatorVars, zoneVars, rasterVars>>)
    \/ (FinishWrap /\ UNCHANGED <<groupVars, planVars, creatorVars, zoneVars, rasterVars>>)
    \/ (PlaceLine /\ UNCHANGED <<groupVars, planVars, creatorVars, zoneVars, rasterVars>>)

SpecLayout == InitLayout /\ [][NextLayout]_vars

RECURSIVE LineWords(_)
LineWords(ls) ==
    IF ls = <<>> THEN <<>>
    ELSE [k \in 1..Len(ls[1].words) |-> ls[1].words[k].word] \o LineWords(Tail(ls))

RECURSIVE SumWidths(_)
SumWidths(ws) == IF ws = <<>> THEN 0 ELSE AdvanceSum(Head(ws).word) + SumWidths(Tail(ws))

\* C12: when the wrap loop has ended, the lines concatenated are the group's (cleaned)
\* words in order, no line is empty, every line's recorded width is the sum of its
\* words' widths plus one space between neighbours, a line of more than one word is
\* at most caption_width wide, and a word wider than caption_width is alone on its line.
C12_WrapKeepsWords ==
    lpc = "place" =>
        /\ LineWords(lines) = [j \in 1..Len(words_data) |-> clean_word(words_data[j])]
        /\ \A k \in 1..Len(lines) :
              LET ws == lines[k].words
              IN  /\ Len(ws) >= 1
                  /\ lines[k].width = SumWidths(ws) + (Len(ws) - 1) * AdvanceSum(<<" ">>)
                  /\ Len(ws) > 1 => lines[k].width <= caption_width
                  /\ (\E j \in 1..Len(ws) : AdvanceSum(ws[j].word) > caption_width)
                        => Len(ws) = 1

C12_Witness ==
    /\ lpc = "place"
    /\ Len(words_data) = 3
    /\ Len(lines) = 2
    /\ Len(lines[1].words) = 2
    /\ lines[1].width = caption_width
    /\ Len(lines[2].words) = 1
    /\ lines[2].width > caption_width

\* C13: each placed line starts, measured from the left edge of the width budget (which
\* lies padding_x inside the image), at (budget - lineWidth)/2 for "center", at 0 for
\* "left" and at budget - lineWidth for "right".
C13_AlignmentOffsets ==
    \A k \in 1..Len(x_start) :
        LET twice_offset == (2 \div x_start[k].den) * x_start[k].num - 2 * padding_x
            room == caption_width - lines[k].width
        IN  /\ config.horizontal_align = "center" => twice_offset = room
            /\ config.horizontal_align = "left" => twice_offset = 0
            /\ config.horizontal_align = "right" => twice_offset = 2 * room

(***************************************************************************)
(* group_words_by_time_and_width and its caller's list                     *)
(***************************************************************************)
\* C15: when group_words_by_time_and_width has returned, every WordTimestamp of the
\* list it was given has the word text, start and end it had before the call.
C15_InputUnchanged ==
    gpc = "done" =>
        /\ Len(word_timestamps) = Len(input_words)
        /\ \A k \in 1..Len(input_words) :
              /\ word_timestamps[k].word = input_words[k].word
              /\ word_timestamps[k].start = input_words[k].start
              /\ word_timestamps[k].end = input_words[k].end

(***************************************************************************)
(* CaptionCreator._create_text_clip: masks and layers of the caption image *)
(* A mask is the set of pixels <<x, y>> where it is opaque.                 *)
(***************************************************************************)
PixelsOf(size) == {<<x, y>> : x \in 0..(size[1] - 1), y \in 0..(size[2] - 1)}

Clamp(v, lo, hi) == IF v < lo THEN lo ELSE IF v > hi THEN hi ELSE v

\* A PIL rank filter of odd size looks, around each pixel, at the size x size window
\* of the image expanded by size // 2 on every side with copies of its edge pixels.
\* mask.filter(ImageFilter.MinFilter(filter_size)): opaque where all the window is
MinFilter(mask, filter_size, size) ==
    LET half == filter_size \div 2
    IN  {p \in PixelsOf(size) :
            \A dx \in (-half)..half, dy \in (-half)..half :
                <<Clamp(p[1] + dx, 0, size[1] - 1), Clamp(p[2] + dy, 0, size[2] - 1)>>
                    \in mask}

\* mask.filter(ImageFilter.MaxFilter(filter_size)): opaque where any of the window is
MaxFilter(mask, filter_size, size) ==
    LET half == filter_size \div 2
    IN  {p \in PixelsOf(size) :
            \E dx \in (-half)..half, dy \in (-half)..half :
                <<Clamp(p[1] + dx, 0, size[1] - 1), Clamp(p[2] + dy, 0, size[2] - 1)>>
                    \in mask}

\* a stroke mask that expands first and erodes afterwards
StrokeMaskExpandFirst(mask, corner_radius, stroke_width, size) ==
    LET erosion_size == (corner_radius * 2) + 1
        expansion_size == ((stroke_width + corner_radius) * 2) + 1
    IN  MinFilter(MaxFilter(mask, expansion_size, size), erosion_size, size)

\* lines 271-274: expanded_mask from text_mask
StrokeMask(mask, corner_radius, stroke_width, size) ==
    LET erosion_size == (corner_radius * 2) + 1
        eroded_mask == MinFilter(mask, erosion_size, size)
        expansion_size == ((stroke_width + corner_radius) * 2) + 1
    IN  MaxFilter(eroded_mask, expansion_size, size)

\* img.paste(layer, offset, mask=mask): the layer's colour wherever the mask, moved
\* by the offset, falls inside the image
Paste(img, layer, offset, mask) ==
    [p \in DOMAIN img |->
        IF <<p[1] - offset[1], p[2] - offset[2]>> \in mask THEN layer ELSE img[p]]

\* draw.text(...): the glyph pixels of a line, moved to (x, y), inside the image
TextPixels(ink, x, y, size) == {<<x + q[1], y + q[2]>> : q \in ink} \cap PixelsOf(size)

\* one iteration of the loop of lines 259-288: the line's text mask, its expanded
\* mask, then shadow, stroke and fill painted onto final_img in that order
DrawLine ==
    /\ lines_drawn < Len(line_ink)
    /\ text_mask' = TextPixels(line_ink[lines_drawn + 1],
                               active_stroke_width + active_stroke_corner_radius
                               + Abs(active_shadow_offset[1]),
                               y_start, img_size)
    /\ expanded_mask' = StrokeMask(text_mask', active_stroke_corner_radius,
                                   active_stroke_width, img_size)
    /\ \E with_shadow \in {Paste(final_img, "shadow", active_shadow_offset, expanded_mask')} :
       \E with_stroke \in {Paste(with_shadow, "stroke", <<0, 0>>, expanded_mask')} :
          final_img' = Paste(with_stroke, "fill", <<0, 0>>, text_mask')
    /\ y_start' = y_start + line_height_from_font + active_line_spacing
    /\ lines_drawn' = lines_drawn + 1
    /\ UNCHANGED <<line_ink, img_size>>

GlyphCols == 3          \* columns of the box a line's glyphs are drawn in
MaxLines == 2           \* most lines in a caption

\* the box of a line, relative to (x_start, y_start)
GlyphBox == {<<x, y>> : x \in 0..(GlyphCols - 1), y \in 0..(FontAscent + FontDescent - 1)}

\* glyph shapes for captions of several lines: a block, a bar at the top of the
\* line, a bar at its bottom, and a word without ink
Glyphs ==
    {GlyphBox,
     {q \in GlyphBox : q[2] = 0},
     {q \in GlyphBox : q[2] = FontAscent + FontDescent - 1},
     {}}

RECURSIVE GlyphLines(_)
GlyphLines(n) ==
    IF n = 0 THEN {<<>>} ELSE {Append(l, g) : l \in GlyphLines(n - 1), g \in Glyphs}

\* styles for a caption of one line, whose ink is arbitrary
OneLineStyles ==
    {[stroke_width |-> s, stroke_corner_radius |-> 1, shadow_offset |-> <<0, 0>>,
      line_spacing |-> 0] : s \in {0, 1}}

\* styles for captions of several lines
RasterStyles ==
    {[stroke_width |-> s, stroke_corner_radius |-> r, shadow_offset |-> o,
      line_spacing |-> ls] :
        s \in {0, 1}, r \in {0, 1}, o \in {<<1, 1>>, <<0, -1>>}, ls \in {0, 2}}

\* the state at line 258: lines laid out, final_img created transparent
InitRaster ==
    /\ \/ \E st \in OneLineStyles :
             /\ active_stroke_width = st.stroke_width
             /\ active_stroke_corner_radius = st.stroke_corner_radius
             /\ active_shadow_offset = st.shadow_offset
             /\ active_line_spacing = st.line_spacing
             /\ line_ink \in {<<ink>> : ink \in SUBSET GlyphBox}
       \/ \E st \in RasterStyles :
             /\ active_stroke_width = st.stroke_width
             /\ active_stroke_corner_radius = st.stroke_corner_radius
             /\ active_shadow_offset = st.shadow_offset
             /\ active_line_spacing = st.line_spacing
             /\ \E n \in 2..MaxLines : line_ink \in GlyphLines(n)
    /\ active_font_size = 1
    /\ active_shadow_blur = 0
    /\ config = [preset |-> "raster", horizontal_align |-> "left"]
    /\ video = [open |-> FALSE]
    /\ needs_crop = FALSE
    /\ videos_done = 0
    /\ files = <<>>
    /\ video_duration = NoneInt
    /\ text_clips = <<>>
    /\ pc = "none"
    /\ LET total_expansion == active_stroke_width + active_stroke_corner_radius
           pad_x == total_expansion + Abs(active_shadow_offset[1])
           pad_y == total_expansion + Abs(active_shadow_offset[2])
           text_height == Len(line_ink) * line_height_from_font
                          + (Len(line_ink) - 1) * active_line_spacing
       IN  /\ img_size = <<GlyphCols + pad_x * 2, text_height + pad_y * 2 + FontDescent>>
           /\ y_start = pad_y
    /\ text_mask = {}
    /\ expanded_mask = {}
    /\ final_img = [p \in PixelsOf(img_size) |-> "clear"]
    /\ lines_drawn = 0
    /\ GroupIdle
    /\ PlanIdle
    /\ ZoneIdle
    /\ LayoutIdle

NextRaster ==
    DrawLine /\ UNCHANGED <<groupVars, planVars, creatorVars, zoneVars, layoutVars>>

SpecRaster == InitRaster /\ [][NextRaster]_vars

\* the stroke mask of the line just drawn, had the corner radius been r
MaskAtRadius(r) == StrokeMask(text_mask, r, active_stroke_width, img_size)

\* C16 as stated: the stroke mask never covers fewer pixels when cornerRadius is
\* increased (stroke width and ink held fixed).
C16_MonotoneInRadius ==
    lines_drawn > 0 =>
        \A r \in 0..(active_stroke_corner_radius - 1) :
            Cardinality(MaskAtRadius(r)) <= Cardinality(expanded_mask)

\* C16 amended: the stroke mask never covers more pixels when cornerRadius is
\* increased; the mask for the larger radius lies inside the mask for the smaller.
C16_AntitoneInRadius ==
    lines_drawn > 0 =>
        \A r \in 0..(active_stroke_corner_radius - 1) :
            /\ Cardinality(expanded_mask) <= Cardinality(MaskAtRadius(r))
            /\ expanded_mask \subseteq MaskAtRadius(r)

C16_Witness ==
    /\ lines_drawn = 1
    /\ active_stroke_corner_radius = 1
    /\ active_stroke_width = 1
    /\ Cardinality(text_mask) = 2 * GlyphCols
    /\ expanded_mask = {}
    /\ Cardinality(MaskAtRadius(0)) > Cardinality(text_mask)

\* C17: no pixel painted by the fill of a caption's line is afterwards painted over
\* by the shadow or the stroke of any line: every glyph pixel of every line drawn
\* shows fill.
C17_FillFrontMost ==
    \A k \in 1..lines_drawn :
        LET x == active_stroke_width + active_stroke_corner_radius
                 + Abs(active_shadow_offset[1])
            y == (active_stroke_width + active_stroke_corner_radius
                  + Abs(active_shadow_offset[2]))
                 + (k - 1) * (line_height_from_font + active_line_spacing)
        IN  \A p \in TextPixels(line_ink[k], x, y, img_size) : final_img[p] = "fill"

(***************************************************************************)
(* Claims about generate: clips and batches                                *)
(***************************************************************************)
\* C14: every clip generate hands to the compositor covers its own group's interval:
\* it starts at group.start, the first word's start, and start + duration is
\* group.end, the last word's end.
C14_ClipIsGroupInterval ==
    pc = "clips" =>
        \A k \in 1..Len(text_clips) :
            LET clip == text_clips[k]
                group == caption_groups[clip.group]
            IN  /\ clip.start = group.start
                /\ group.start = group.words[1].start
                /\ clip.start + clip.duration = group.end
                /\ group.end = group.words[Len(group.words)].end

\* C18: with no preset word_timestamps in the config, the caption groups generate
\* builds for a video hold the words transcribed for that same video.
C18_OwnTranscript ==
    (pc = "clips" /\ config.word_timestamps = <<>>) =>
        ConcatWords(caption_groups) = NonBlankWords(NextFile.speech)

====
